---- MODULE Spec2Model ----
(***************************************************************************)
(* Model of single_file_bookmark_archiver/bookmark_archiver.py:            *)
(* BookmarkArchiver (bookmark tree search, URL extraction, processed-URL   *)
(* log, archive loop) and main().                                          *)
(*                                                                         *)
(* Strings that the code cuts and joins (URLs, log lines, the log file)    *)
(* are sequences of one-character strings; titles, node types and labels   *)
(* are plain strings.                                                      *)
(***************************************************************************)
EXTENDS Integers, Sequences, FiniteSets, TLC

VARIABLES
    tree,            \* the bookmark tree the newest backup decodes to
    bookmarks,       \* run(): bookmarks (the decoded tree)
    folder_name,     \* config["bookmark_folder_name"] / the folder_name argument
    folder,          \* run(): folder (the result of find_bookmark_folder)
    urls,            \* run(): urls (the result of extract_urls)
    tpc,             \* position of the tree-function harness
    logfile,         \* content of the processed-URL log file, as characters
    logExists,       \* whether the log file exists on disk
    processed_urls,  \* BookmarkArchiver.processed_urls
    new_urls,        \* run(): new_urls
    i,               \* run(): position of the for loop in new_urls (1-based)
    success_count,   \* run(): success_count
    pc,              \* position of the process
    exit_code,       \* exit status of the last process that ended
    outcome,         \* how the last process ended
    summary,         \* the (success_count, len(new_urls)) pair of the last line printed
    runs,            \* number of processes started so far
    edited,          \* the bookmarks were edited since the last process
    attempts,        \* history: archive_url calls of this run, in order
    succeeded,       \* history: URLs for which the archiver has returned success
    logAtStart,      \* history: log file content when this process started
    loaded,          \* history: processed_urls as run() filtered against it
    changed,         \* history: the bookmarks were edited since a run last read them
    same_tree,       \* history: this run read the tree the previous reading run read
    prev             \* history: attempts of the previous run that read a tree

vars == <<tree, bookmarks, folder_name, folder, urls, tpc, logfile, logExists,
          processed_urls, new_urls, i, success_count, pc, exit_code, outcome,
          summary, runs, edited, attempts, succeeded, logAtStart, loaded,
          changed, same_tree, prev>>

(***************************************************************************)
(* Bounds of the model.                                                    *)
(***************************************************************************)
MaxChildren == 2     \* bookmarks in the target folder
MaxRuns == 2         \* processes started in one behaviour
MaxNodes == 4        \* nodes of a tree handed to the tree functions

(***************************************************************************)
(* Literals of the code.                                                   *)
(***************************************************************************)
Container == "text/x-moz-place-container"
Place == "text/x-moz-place"
Separator == "text/x-moz-place-separator"
Untitled == "Untitled"
NL == "\n"
None == [none |-> TRUE]

\* str.strip() with no argument removes whitespace; of the characters of the
\* model these are the blank and the newline.
Whitespace == {" ", "\t", "\r", NL}

\* URL strings of the model: two plain ones, one with whitespace at an end,
\* and the empty string.
Urls == {<<"a">>, <<"b">>, <<" ", "a">>, <<>>}

(***************************************************************************)
(* Strings.                                                                *)
(***************************************************************************)
RECURSIVE lstrip(_)
lstrip(s) ==
    IF s = <<>> THEN s
    ELSE IF Head(s) \in Whitespace THEN lstrip(Tail(s)) ELSE s

RECURSIVE rstrip(_)
rstrip(s) ==
    IF s = <<>> THEN s
    ELSE IF s[Len(s)] \in Whitespace THEN rstrip(SubSeq(s, 1, Len(s) - 1)) ELSE s

\* str.strip()
strip(s) == rstrip(lstrip(s))

\* Iterating a text file: the lines of the content, each with the newline
\* that ends it; a last line without a newline is a line too.
RECURSIVE file_lines(_, _)
file_lines(content, cur) ==
    IF content = <<>> THEN (IF cur = <<>> THEN <<>> ELSE <<cur>>)
    ELSE IF Head(content) = NL
         THEN <<Append(cur, NL)>> \o file_lines(Tail(content), <<>>)
         ELSE file_lines(Tail(content), Append(cur, Head(content)))

Range(s) == {s[k] : k \in 1..Len(s)}

\* load_processed_urls: the set comprehension over the lines of the file.
read_processed(content) ==
    {strip(line) : line \in {l \in Range(file_lines(content, <<>>)) : strip(l) # <<>>}}

\* load_processed_urls: the new value of self.processed_urls.
load_processed_urls(exists, content, current) ==
    IF exists THEN read_processed(content) ELSE current

\* mark_as_processed: what the append leaves in the file.
append_line(content, url) == content \o url \o <<NL>>

(***************************************************************************)
(* Bookmark tree.  A node is a record whose fields are the keys the JSON   *)
(* object has: type, and optionally title, uri, children.                  *)
(***************************************************************************)
Has(node, key) == key \in DOMAIN node

RECURSIVE find_bookmark_folder(_, _)
RECURSIVE find_in_children(_, _, _)

\* The for loop of find_bookmark_folder over node['children'], from child k on.
find_in_children(children, k, name) ==
    IF k > Len(children) THEN None
    ELSE LET found == find_bookmark_folder(children[k], name)
         IN  IF found # None THEN found
             ELSE find_in_children(children, k + 1, name)

\* find_bookmark_folder without the test of the node type.
find_folder_any_type(node, name) ==
    IF Has(node, "title") /\ node.title = name
    THEN node
    ELSE IF Has(node, "children")
         THEN find_in_children(node.children, 1, name)
         ELSE None

find_bookmark_folder(node, name) ==
    IF Has(node, "type") /\ node.type = Container
       /\ Has(node, "title") /\ node.title = name
    THEN node
    ELSE IF Has(node, "children")
         THEN find_in_children(node.children, 1, name)
         ELSE None

\* The loop of extract_urls without the test of the item type.
RECURSIVE extract_any_type(_, _)
extract_any_type(children, k) ==
    IF k > Len(children) THEN <<>>
    ELSE LET item == children[k]
         IN  (IF Has(item, "uri")
              THEN <<[url |-> item.uri,
                      title |-> IF Has(item, "title") THEN item.title ELSE Untitled]>>
              ELSE <<>>)
             \o extract_any_type(children, k + 1)

\* The for loop of extract_urls over folder['children'], from child k on.
RECURSIVE extract_from(_, _)
extract_from(children, k) ==
    IF k > Len(children) THEN <<>>
    ELSE LET item == children[k]
         IN  (IF Has(item, "type") /\ item.type = Place /\ Has(item, "uri")
              THEN <<[url |-> item.uri,
                      title |-> IF Has(item, "title") THEN item.title ELSE Untitled]>>
              ELSE <<>>)
             \o extract_from(children, k + 1)

extract_urls(f) ==
    IF f = None \/ ~Has(f, "children") THEN <<>>
    ELSE extract_from(f.children, 1)

\* The list comprehension with "in" for "not in".
RECURSIVE filter_old(_, _)
filter_old(items, processed) ==
    IF items = <<>> THEN <<>>
    ELSE (IF Head(items).url \in processed THEN <<Head(items)>> ELSE <<>>)
         \o filter_old(Tail(items), processed)

\* run(): the list comprehension that keeps the items not yet processed.
RECURSIVE filter_new(_, _)
filter_new(items, processed) ==
    IF items = <<>> THEN <<>>
    ELSE (IF Head(items).url \notin processed THEN <<Head(items)>> ELSE <<>>)
         \o filter_new(Tail(items), processed)

(***************************************************************************)
(* Trees.                                                                  *)
(***************************************************************************)
Bookmark(u) == [type |-> Place, title |-> "page", uri |-> u]

TargetFolder(kids) == [type |-> Container, title |-> "Travel", children |-> kids]

Root(kids) == [type |-> Container, title |-> "", children |-> kids]

RECURSIVE SeqsUpTo(_, _)
SeqsUpTo(S, n) ==
    IF n = 0 THEN {<<>>}
    ELSE LET shorter == SeqsUpTo(S, n - 1)
         IN  shorter \cup {Append(s, x) : s \in {t \in shorter : Len(t) = n - 1}, x \in S}

\* The trees a backup decodes to in the archiving runs: the target folder
\* with up to MaxChildren bookmarks, or no target folder at all.
BackupTrees ==
    {Root(<<>>)}
    \cup {Root(<<TargetFolder(kids)>>) :
            kids \in SeqsUpTo({Bookmark(u) : u \in Urls}, MaxChildren)}

\* The nodes the tree functions are tried on.
NodeKinds ==
    { [type |-> Container, title |-> "Travel", children |-> <<>>],
      [type |-> Container, title |-> "travel", children |-> <<>>],
      [type |-> Container, children |-> <<>>],
      [type |-> Container, title |-> "Travel"],
      [type |-> Place, title |-> "Travel", uri |-> <<"a">>, children |-> <<>>],
      [type |-> Place, uri |-> <<"b">>],
      [type |-> Place, title |-> "page"],
      [type |-> Separator, title |-> "Travel", uri |-> <<"a">>] }

FolderNames == {"Travel", "Nonexistent"}

RECURSIVE NodeCount(_)
RECURSIVE CountFrom(_, _)
CountFrom(children, k) ==
    IF k > Len(children) THEN 0
    ELSE NodeCount(children[k]) + CountFrom(children, k + 1)
NodeCount(node) ==
    1 + (IF Has(node, "children") THEN CountFrom(node.children, 1) ELSE 0)

\* The paths (child indices from the root) of the nodes that have children.
RECURSIVE ParentPaths(_)
ParentPaths(node) ==
    IF ~Has(node, "children") THEN {}
    ELSE {<<>>} \cup UNION { {<<k>> \o p : p \in ParentPaths(node.children[k])} :
                             k \in 1..Len(node.children) }

RECURSIVE AddAt(_, _, _)
AddAt(node, path, new) ==
    IF path = <<>> THEN [node EXCEPT !.children = Append(@, new)]
    ELSE [node EXCEPT !.children[Head(path)] = AddAt(@, Tail(path), new)]

\* The nodes of a tree in document order (a node before its children, the
\* children left to right).
RECURSIVE PreOrder(_)
RECURSIVE PreOrderFrom(_, _)
PreOrderFrom(children, k) ==
    IF k > Len(children) THEN <<>>
    ELSE PreOrder(children[k]) \o PreOrderFrom(children, k + 1)
PreOrder(node) ==
    <<node>> \o (IF Has(node, "children") THEN PreOrderFrom(node.children, 1) ELSE <<>>)

(***************************************************************************)
(* The process: main() and BookmarkArchiver.run(), one action per step.    *)
(***************************************************************************)
RunInit ==
    /\ logfile = <<>>
    /\ logExists = FALSE
    /\ processed_urls = {}
    /\ new_urls = <<>>
    /\ i = 0
    /\ success_count = 0
    /\ exit_code = None
    /\ outcome = "none"
    /\ summary = <<>>
    /\ runs = 0
    /\ edited = FALSE
    /\ attempts = <<>>
    /\ succeeded = {}
    /\ logAtStart = <<>>
    /\ loaded = {}
    /\ changed = FALSE
    /\ same_tree = FALSE
    /\ prev = None
    /\ bookmarks = None
    /\ folder = None
    /\ urls = <<>>

Init ==
    /\ tree \in BackupTrees
    /\ folder_name = "Travel"
    /\ tpc = "off"
    /\ pc = "idle"
    /\ RunInit

\* The process ends: its exit status and the way it ended.
Exit(code, how) ==
    /\ pc' = "exited"
    /\ exit_code' = code
    /\ outcome' = how

\* Between two processes the user adds a bookmark to the target folder.
AddBookmark(u) ==
    /\ pc \in {"idle", "exited"}
    /\ runs < MaxRuns
    /\ ~edited
    /\ tree.children # <<>>
    /\ Len(tree.children[1].children) < MaxChildren
    /\ tree' = [tree EXCEPT !.children[1].children = Append(@, Bookmark(u))]
    /\ edited' = TRUE
    /\ changed' = TRUE
    /\ UNCHANGED <<bookmarks, folder_name, folder, urls, tpc, logfile, logExists,
                   processed_urls, new_urls, i, success_count, pc, exit_code,
                   outcome, summary, runs, attempts, succeeded, logAtStart,
                   loaded, same_tree, prev>>

\* Between two processes the user deletes the first bookmark of the target
\* folder.
RemoveBookmark ==
    /\ pc \in {"idle", "exited"}
    /\ runs < MaxRuns
    /\ ~edited
    /\ tree.children # <<>>
    /\ tree.children[1].children # <<>>
    /\ tree' = [tree EXCEPT !.children[1].children = Tail(@)]
    /\ edited' = TRUE
    /\ changed' = TRUE
    /\ UNCHANGED <<bookmarks, folder_name, folder, urls, tpc, logfile, logExists,
                   processed_urls, new_urls, i, success_count, pc, exit_code,
                   outcome, summary, runs, attempts, succeeded, logAtStart,
                   loaded, same_tree, prev>>

\* main() up to archiver.run(), BookmarkArchiver.__init__ and the first lines
\* of run() (the two mkdir calls).  arg: a command-line argument is given;
\* cfg: what the configuration file is like.
ConfigCases == {"ok", "env_unset", "missing_file", "missing_key"}

Main(arg, cfg) ==
    /\ pc \in {"idle", "exited"}
    /\ runs < MaxRuns
    /\ runs' = runs + 1
    /\ edited' = FALSE
    /\ logAtStart' = logfile
    /\ attempts' = <<>>
    /\ summary' = <<>>
    /\ processed_urls' = {}
    /\ new_urls' = <<>>
    /\ i' = 0
    /\ success_count' = 0
    /\ loaded' = {}
    /\ bookmarks' = None
    /\ folder' = None
    /\ urls' = <<>>
    /\ prev' = IF outcome \in {"folder_not_found", "no_new_urls", "completed"}
               THEN [attempts |-> attempts]
               ELSE prev
    /\ same_tree' = FALSE
    /\ IF arg
       THEN \* line 290: sPath and ys are undefined names, NameError
            Exit(1, "name_error")
       ELSE IF cfg = "env_unset"
       THEN \* line 290: Path(None), TypeError
            Exit(1, "config_error")
       ELSE IF cfg = "missing_file"
       THEN \* lines 292-294: logger is an undefined name, NameError
            Exit(1, "config_error")
       ELSE IF cfg = "missing_key"
       THEN \* lines 43, 217, 222: KeyError
            Exit(1, "config_error")
       ELSE /\ pc' = "load"
            /\ exit_code' = None
            /\ outcome' = "running"
    /\ UNCHANGED <<tree, folder_name, tpc, logfile, logExists, succeeded, changed>>

\* run(), lines 225-227.
Load ==
    /\ pc = "load"
    /\ processed_urls' = load_processed_urls(logExists, logfile, processed_urls)
    /\ pc' = "profile"
    /\ UNCHANGED <<tree, bookmarks, folder_name, folder, urls, tpc, logfile, logExists,
                   new_urls, i, success_count, exit_code, outcome, summary,
                   runs, edited, attempts, succeeded, logAtStart, loaded,
                   changed, same_tree, prev>>

\* run(), lines 229-235.  ok: find_firefox_profile returns a directory.
FindProfile(ok) ==
    /\ pc = "profile"
    /\ IF ok THEN /\ pc' = "backup"
                  /\ UNCHANGED <<exit_code, outcome>>
             ELSE Exit(0, "profile_error")
    /\ UNCHANGED <<tree, bookmarks, folder_name, folder, urls, tpc, logfile, logExists,
                   processed_urls, new_urls, i, success_count, summary,
                   runs, edited, attempts, succeeded, logAtStart, loaded,
                   changed, same_tree, prev>>

\* run(), lines 237-243.  ok: get_latest_bookmark_backup returns a file.
GetBackup(ok) ==
    /\ pc = "backup"
    /\ IF ok THEN /\ pc' = "read"
                  /\ UNCHANGED <<exit_code, outcome>>
             ELSE Exit(0, "backup_error")
    /\ UNCHANGED <<tree, bookmarks, folder_name, folder, urls, tpc, logfile, logExists,
                   processed_urls, new_urls, i, success_count, summary,
                   runs, edited, attempts, succeeded, logAtStart, loaded,
                   changed, same_tree, prev>>

\* Lines 245-251 without the return of the except branch.
ReadBackup_no_return(ok) ==
    /\ pc = "read"
    /\ pc' = "folder"
    /\ IF ok THEN UNCHANGED <<exit_code, outcome>>
             ELSE exit_code' = 0 /\ outcome' = "decode_error"
    /\ bookmarks' = tree
    /\ same_tree' = (prev # None /\ ~changed)
    /\ changed' = FALSE
    /\ UNCHANGED <<tree, folder_name, folder, urls, tpc, logfile, logExists,
                   processed_urls, new_urls, i, success_count, summary,
                   runs, edited, attempts, succeeded, logAtStart, loaded, prev>>

\* run(), lines 245-251.  ok: read_bookmark_backup decodes the file.
ReadBackup(ok) ==
    /\ pc = "read"
    /\ IF ok THEN /\ pc' = "folder"
                  /\ UNCHANGED <<exit_code, outcome>>
             ELSE Exit(0, "decode_error")
    /\ bookmarks' = IF ok THEN tree ELSE bookmarks
    /\ same_tree' = (ok /\ prev # None /\ ~changed)
    /\ changed' = (changed /\ ~ok)
    /\ UNCHANGED <<tree, folder_name, folder, urls, tpc, logfile, logExists,
                   processed_urls, new_urls, i, success_count, summary,
                   runs, edited, attempts, succeeded, logAtStart, loaded, prev>>

\* run(), lines 253-278: find the folder, extract its URLs, keep the new ones.
Select ==
    /\ pc = "folder"
    /\ LET f == find_bookmark_folder(bookmarks, folder_name)
           extracted == extract_urls(f)
           fresh == filter_new(extracted, processed_urls)
       IN  /\ folder' = f
           /\ IF f = None
              THEN /\ Exit(0, "folder_not_found")
                   /\ UNCHANGED <<urls, new_urls, i, success_count, loaded>>
              ELSE /\ urls' = extracted
                   /\ new_urls' = fresh
                   /\ loaded' = processed_urls
                   /\ IF fresh = <<>>
                      THEN /\ Exit(0, "no_new_urls")
                           /\ UNCHANGED <<i, success_count>>
                      ELSE /\ pc' = "loop"
                           /\ i' = 1
                           /\ success_count' = 0
                           /\ UNCHANGED <<exit_code, outcome>>
    /\ UNCHANGED <<tree, bookmarks, folder_name, tpc, logfile, logExists,
                   processed_urls, summary, runs, edited, attempts, succeeded,
                   logAtStart, changed, same_tree, prev>>

ArchiveResults == {"ok", "archiver_failed", "log_write_failed"}

\* archive_url and mark_as_processed: the value archive_url returns.
archive_returns(res) == res = "ok"

\* mark_as_processed: the processed set after the call of archive_url.
\* The set is updated before the file is opened.
marked_set(processed, url, res) ==
    IF res = "archiver_failed" THEN processed ELSE processed \cup {url}

\* mark_as_processed without the append to the file.
marked_file_unwritten(content, url, res) == content

\* mark_as_processed: the log file after the call of archive_url.
marked_file(content, url, res) ==
    IF res = "ok" THEN append_line(content, url) ELSE content

\* run(), lines 282-284: one iteration of the loop, the call of archive_url
\* (lines 179-210) with it.  res: the archiver fails (CalledProcessError or
\* any other exception of subprocess.run), or it succeeds and then the
\* append to the log file succeeds or raises.
ArchiveUrl(res) ==
    /\ pc = "loop"
    /\ i <= Len(new_urls)
    /\ LET url == new_urls[i].url
       IN  /\ attempts' = Append(attempts, [url |-> url,
                                            archived |-> res # "archiver_failed",
                                            returned |-> archive_returns(res)])
           /\ succeeded' = IF res # "archiver_failed"
                           THEN succeeded \cup {url} ELSE succeeded
           /\ processed_urls' = marked_set(processed_urls, url, res)
           /\ logfile' = marked_file(logfile, url, res)
           /\ logExists' = (logExists \/ res = "ok")
           /\ success_count' = IF archive_returns(res)
                               THEN success_count + 1 ELSE success_count
    /\ i' = i + 1
    /\ UNCHANGED <<tree, bookmarks, folder_name, folder, urls, tpc, new_urls,
                   pc, exit_code, outcome, summary, runs, edited, logAtStart,
                   loaded, changed, same_tree, prev>>

\* run(), line 286, and the return to main(): the process ends normally.
Summary ==
    /\ pc = "loop"
    /\ i > Len(new_urls)
    /\ summary' = <<success_count, Len(new_urls)>>
    /\ Exit(0, "completed")
    /\ UNCHANGED <<tree, bookmarks, folder_name, folder, urls, tpc, logfile,
                   logExists, processed_urls, new_urls, i, success_count,
                   runs, edited, attempts, succeeded, logAtStart, loaded,
                   changed, same_tree, prev>>

Next ==
    \/ \E u \in Urls : AddBookmark(u)
    \/ RemoveBookmark
    \/ \E arg \in BOOLEAN, cfg \in ConfigCases : Main(arg, cfg)
    \/ Load
    \/ \E ok \in BOOLEAN : FindProfile(ok)
    \/ \E ok \in BOOLEAN : GetBackup(ok)
    \/ \E ok \in BOOLEAN : ReadBackup(ok)
    \/ Select
    \/ \E res \in ArchiveResults : ArchiveUrl(res)
    \/ Summary

Spec == Init /\ [][Next]_vars

(***************************************************************************)
(* The tree functions on their own: a tree is built node by node, then     *)
(* find_bookmark_folder or extract_urls is applied to it.                  *)
(***************************************************************************)
InitTree ==
    /\ tree \in NodeKinds
    /\ folder_name = "Travel"
    /\ tpc = "build"
    /\ pc = "off"
    /\ RunInit

treeOnly == <<bookmarks, logfile, logExists, processed_urls, new_urls, i,
              success_count, pc, exit_code, outcome, summary, runs, edited,
              attempts, succeeded, logAtStart, loaded,
                   changed, same_tree, prev>>

\* The tree gets one more node, as the last child of the node at path.
AddNode(path, kind) ==
    /\ tpc = "build"
    /\ NodeCount(tree) < MaxNodes
    /\ path \in ParentPaths(tree)
    /\ tree' = AddAt(tree, path, kind)
    /\ UNCHANGED <<folder_name, folder, urls, tpc>>
    /\ UNCHANGED treeOnly

\* find_bookmark_folder(tree, name)
FindFolder(name) ==
    /\ tpc = "build"
    /\ folder_name' = name
    /\ folder' = find_bookmark_folder(tree, name)
    /\ tpc' = "found"
    /\ UNCHANGED <<tree, urls>>
    /\ UNCHANGED treeOnly

\* extract_urls(f), f a node of the tree or None
ExtractUrls(f) ==
    /\ tpc = "build"
    /\ folder' = f
    /\ urls' = extract_urls(f)
    /\ tpc' = "extracted"
    /\ UNCHANGED <<tree, folder_name>>
    /\ UNCHANGED treeOnly

NextTree ==
    \/ \E path \in ParentPaths(tree), kind \in NodeKinds : AddNode(path, kind)
    \/ \E name \in FolderNames : FindFolder(name)
    \/ \E f \in Range(PreOrder(tree)) \cup {None} : ExtractUrls(f)

SpecTree == InitTree /\ [][NextTree]_vars

(***************************************************************************)
(* Vocabulary of the properties.                                           *)
(***************************************************************************)
\* The run has got past load_processed_urls and has not archived yet.
JustLoaded == pc \in {"profile", "backup", "read", "folder"}

\* The run has filtered the extracted records (new_urls is set).
Filtered ==
    \/ pc = "loop"
    \/ pc = "exited" /\ outcome \in {"no_new_urls", "completed"}

\* The run was stopped by a failure to find the profile or the backup or to
\* decode the backup.
Aborted == outcome \in {"profile_error", "backup_error", "decode_error"}

\* The lines of the log file without the newline that ends them.
LoggedLines == {SubSeq(l, 1, Len(l) - 1) : l \in Range(file_lines(logfile, <<>>))}

IsBlank(s) == \A k \in 1..Len(s) : s[k] \in Whitespace

\* out lists, in the order of src, the image of the entries of src whose
\* index is in Idx, each once.
PicksInOrder(out, src, Idx, Img(_)) ==
    /\ Len(out) = Cardinality(Idx)
    /\ \E f \in [1..Len(out) -> Idx] :
          /\ \A a, b \in 1..Len(out) : a < b => f[a] < f[b]
          /\ \A k \in 1..Len(out) : out[k] = Img(src[f[k]])

Same(x) == x

\* The URLs of the attempts of a run, in order.
Invoked(att) == [k \in 1..Len(att) |-> att[k].url]

\* This run has read the tree the previous run read: the bookmarks were not
\* edited in between.
SameTreeAgain == prev # None /\ same_tree

(***************************************************************************)
(* C1.  A URL is recorded as processed (it is in processed_urls, it is a   *)
(* line of the log file) if and only if the archiver has succeeded for it, *)
(* whatever archiver and log-write failures happen.                        *)
(* The code breaks this: mark_as_processed adds the URL to the set before  *)
(* it opens the file, and archive_url swallows the exception.              *)
(***************************************************************************)
C1_RecordedIffArchived ==
    /\ \A u \in processed_urls \cup LoggedLines : u \in succeeded
    /\ \A u \in succeeded :
          /\ u \in LoggedLines
          /\ (JustLoaded \/ pc = "loop") => u \in processed_urls

C3_FailureIsolation ==
    /\ (pc = "exited" /\ outcome = "completed") =>
          /\ Invoked(attempts) = [k \in 1..Len(new_urls) |-> new_urls[k].url]
          /\ summary = << Cardinality({k \in 1..Len(attempts) : attempts[k].archived}),
                          Len(new_urls) >>
          /\ summary[1] = Cardinality(processed_urls \ loaded)
    /\ (Filtered /\ prev # None) =>
          \A j \in 1..Len(prev.attempts) :
              LET u == prev.attempts[j].url
              IN  (/\ \A m \in 1..Len(prev.attempts) :
                         prev.attempts[m].url = u => ~prev.attempts[m].archived
                   /\ \E m \in 1..Len(urls) : urls[m].url = u)
                  => \E m \in 1..Len(new_urls) : new_urls[m].url = u

(***************************************************************************)
(* C4.  A run stopped by a profile, backup or decode failure has made no   *)
(* archiver invocation and has left the log file as it found it.           *)
(***************************************************************************)
C4_AbortBeforeArchiving ==
    Aborted => /\ attempts = <<>>
               /\ logfile = logAtStart

\* A decode failure stopped a run that had new URLs to archive.
C4_Witness ==
    /\ pc = "exited"
    /\ outcome = "decode_error"
    /\ filter_new(extract_urls(find_bookmark_folder(tree, folder_name)),
                  processed_urls) # <<>>

(***************************************************************************)
(* C5.  A process that ends on a fatal error has a non-zero exit status;   *)
(* a process whose run completes has exit status zero.                     *)
(* The code breaks this: run() prints the error and returns, and main()    *)
(* falls off its end.                                                      *)
(***************************************************************************)
FatalOutcomes == {"config_error", "profile_error", "backup_error", "decode_error"}

C5_ExitStatus ==
    pc = "exited" =>
        /\ outcome \in FatalOutcomes => exit_code # 0
        /\ outcome = "completed" => exit_code = 0

(***************************************************************************)
(* C6.  new_urls is urls without the records whose URL is in the ledger,   *)
(* in the order of urls, and the archiver is invoked on these records, in  *)
(* this order, one per step of the loop.                                   *)
(***************************************************************************)
C6_DedupOrder ==
    Filtered =>
        /\ PicksInOrder(new_urls, urls,
                        {j \in 1..Len(urls) : urls[j].url \notin loaded}, Same)
        /\ Len(attempts) = (IF pc = "loop" THEN i - 1 ELSE Len(new_urls))
        /\ \A k \in 1..Len(attempts) : attempts[k].url = new_urls[k].url

\* The first of two records was in the ledger and the second was archived.
C6_Witness ==
    /\ pc = "exited"
    /\ outcome = "completed"
    /\ Len(urls) = 2
    /\ urls[1].url \in loaded
    /\ new_urls = <<urls[2]>>
    /\ Len(attempts) = 1

(***************************************************************************)
(* C7.  load_processed_urls yields the non-blank lines of the log file,    *)
(* only the newline that ends a line removed, and so every non-blank URL   *)
(* that mark_as_processed wrote is in the set a later run loads.           *)
(* The code breaks this: it strips all whitespace of both ends of a line.  *)
(***************************************************************************)
C7_LoadExact ==
    JustLoaded =>
        /\ processed_urls = {l \in LoggedLines : ~IsBlank(l)}
        /\ \A u \in LoggedLines : ~IsBlank(u) => u \in processed_urls

(***************************************************************************)
(* C8.  When a process has ended, the log file is what it was when the     *)
(* process started followed by one line for each distinct URL the run      *)
(* archived, in the order of archiving.                                    *)
(* The code breaks this: a URL that is in the folder twice is archived     *)
(* twice and written twice.                                                *)
(***************************************************************************)
RECURSIVE FirstOccurrences(_, _)
FirstOccurrences(s, seen) ==
    IF s = <<>> THEN <<>>
    ELSE IF Head(s) \in seen THEN FirstOccurrences(Tail(s), seen)
         ELSE <<Head(s)>> \o FirstOccurrences(Tail(s), seen \cup {Head(s)})

RECURSIVE AsLines(_)
AsLines(s) == IF s = <<>> THEN <<>> ELSE Head(s) \o <<NL>> \o AsLines(Tail(s))

C8_AppendOnly ==
    pc = "exited" =>
        logfile = logAtStart \o
                  AsLines(FirstOccurrences(
                      Invoked(SelectSeq(attempts, LAMBDA a : a.returned)), {}))

(***************************************************************************)
(* C9.  find_bookmark_folder returns the first node, in document order,    *)
(* that is a container and has the title asked for, and None when the tree *)
(* has no such node.                                                       *)
(***************************************************************************)
Matches(node, name) ==
    Has(node, "type") /\ node.type = Container /\ Has(node, "title") /\ node.title = name

RecordOf(item) ==
    [url |-> item.uri, title |-> IF Has(item, "title") THEN item.title ELSE Untitled]

C10_ExtractUrls ==
    tpc = "extracted" =>
        IF folder = None \/ ~Has(folder, "children") THEN urls = <<>>
        ELSE PicksInOrder(urls, folder.children,
                          {k \in 1..Len(folder.children) :
                              /\ folder.children[k].type = Place
                              /\ Has(folder.children[k], "uri")},
                          RecordOf)

\* The folder has a subfolder with a URL entry in it, and an untitled URL
\* entry of its own, which is the only record.
C10_Witness ==
    /\ tpc = "extracted"
    /\ folder # None
    /\ Has(folder, "children") /\ Len(folder.children) = 2
    /\ Has(folder.children[1], "children")
    /\ Len(folder.children[1].children) = 1
    /\ Has(folder.children[1].children[1], "uri")
    /\ folder.children[1].children[1].type = Place
    /\ urls = <<[url |-> <<"b">>, title |-> Untitled]>>

====
